---- MODULE Spec2Model ----
(***************************************************************************)
(* Study Session Planner: the session store of model.py (an in-memory list *)
(* mirrored in sessions.csv) and the event handlers of StudyApp (main.py)  *)
(* that call it.                                                           *)
(*                                                                         *)
(* A session in memory is a record [subject, date, duration, notes] whose  *)
(* duration is an integer.  A data record of the file is a record          *)
(* [Subject, Date, Duration, Notes] of text; the Duration text is a        *)
(* sequence of one-character strings, written by str() and read by int().  *)
(* List indices of the program are 0-based; sequences here are 1-based.    *)
(***************************************************************************)
EXTENDS Integers, Sequences, FiniteSets, TLC

VARIABLES
    session_list,   \* model.py: the process-wide list of sessions
    file,           \* sessions.csv: [exists, header, rows]
    pc,             \* "store": the store driven directly; "start", "running", "crashed": StudyApp
    selected_row,   \* StudyApp.selected_row: <<>> is None, <<r>> is row r
    table,          \* the rows TableWidget displays (text)
    form,           \* SubjectLineEdit, DateEdit, SpinBox, NotesTextEdit
    calendar_date,  \* CalendarWidget.selectedDate()
    error_labels,   \* which of SubjectErrorLabel, DurationErrorLabel hold a message
    details,        \* SessionDetailsTextEdit: <<date, lines>>
    tab,            \* tabWidget.currentIndex()
    timer_pending,  \* whether a QTimer.singleShot(2000, _clear_highlights) callback is pending
    last,           \* history: the operation or handler that ran last, its inputs and result
    clicked,        \* history: <<>> or <<the table row clicked since the last submit or clear>>
    appended        \* history: [valid, saved]: the sessions passed to save_session since a start without a file

vars == <<session_list, file, pc, selected_row, table, form, calendar_date,
          error_labels, details, tab, timer_pending, last, clicked, appended>>

app_vars == <<selected_row, table, form, calendar_date, error_labels, details, tab, timer_pending, clicked>>

(***************************************************************************)
(* Bounds                                                                  *)
(***************************************************************************)
\* the largest number of data records the file (and sessions the list) may hold
MaxLen == 3

(***************************************************************************)
(* Values                                                                  *)
(***************************************************************************)
StudySession(subject, date, duration, notes) ==
    [subject |-> subject, date |-> date, duration |-> duration, notes |-> notes]

Dates == {"2024-01-10", "2024-01-11"}

\* the sessions callers pass to the store; the store itself validates nothing
SessionInputs ==
    { StudySession("Math", "2024-01-10", 30, ""),
      StudySession("Art", "2024-01-10", 45, "sketch"),
      StudySession("Math", "2024-01-11", 60, "revised"),
      StudySession("", "2024-01-11", 0, "") }

\* what the user can have typed into the form
FormInputs ==
    { StudySession("Math", "2024-01-10", 30, ""),
      StudySession("Math", "2024-01-11", 60, "revised"),
      StudySession("", "2024-01-10", 30, ""),
      StudySession("Math", "2024-01-11", 0, "") }

\* sort key of a date string: "YYYY-MM-DD" strings compare as their dates do
DateKey(d) == CASE d = "2024-01-10" -> 10
                [] d = "2024-01-11" -> 11
                [] OTHER -> 0

(***************************************************************************)
(* str(int) and int(str)                                                   *)
(***************************************************************************)
DigitChar == <<"0", "1", "2", "3", "4", "5", "6", "7", "8", "9">>

Digits == {DigitChar[i] : i \in 1..10}

DigitVal(c) == (CHOOSE i \in 1..10 : DigitChar[i] = c) - 1

RECURSIVE NatStr(_)
NatStr(n) == IF n < 10 THEN <<DigitChar[n + 1]>>
             ELSE NatStr(n \div 10) \o <<DigitChar[(n % 10) + 1]>>

\* a slip in the conversion: the last digit alone
str_LastDigit(n) == <<DigitChar[(n % 10) + 1]>>

\* str(duration), as csv.DictWriter writes a non-string field
str(n) == IF n < 0 THEN <<"-">> \o NatStr(0 - n) ELSE NatStr(n)

RECURSIVE lstrip(_)
lstrip(t) == IF t # <<>> /\ Head(t) = " " THEN lstrip(Tail(t)) ELSE t

RECURSIVE rstrip(_)
rstrip(t) == IF t # <<>> /\ t[Len(t)] = " " THEN rstrip(SubSeq(t, 1, Len(t) - 1)) ELSE t

strip(t) == rstrip(lstrip(t))

unsigned(t) == IF t # <<>> /\ Head(t) \in {"+", "-"} THEN Tail(t) ELSE t

\* whether int(t) succeeds: optional blanks, an optional sign, one or more digits
IsIntLiteral(t) ==
    LET u == unsigned(strip(t))
    IN  u # <<>> /\ \A i \in 1..Len(u) : u[i] \in Digits

RECURSIVE NatVal(_)
NatVal(u) == IF u = <<>> THEN 0
             ELSE 10 * NatVal(SubSeq(u, 1, Len(u) - 1)) + DigitVal(u[Len(u)])

\* int(t) for a t that IsIntLiteral
int(t) ==
    LET s == strip(t)
    IN  IF Head(s) = "-" THEN 0 - NatVal(unsigned(s)) ELSE NatVal(unsigned(s))

(***************************************************************************)
(* The backing file                                                        *)
(***************************************************************************)
NoFile == [exists |-> FALSE, header |-> FALSE, rows |-> <<>>]

\* writer.writerow({...}): the record of one session
writerow(session) ==
    [Subject |-> session.subject, Date |-> session.date,
     Duration |-> str(session.duration), Notes |-> session.notes]

\* the StudySession(...) that load_sessions builds from one record
read_row(row) == StudySession(row.Subject, row.Date, int(row.Duration), row.Notes)

\* records a file can hold at process start: written by the program earlier,
\* edited by hand (a leading zero, a blank), or with a duration that is no integer
InitRows ==
    { writerow(StudySession("Math", "2024-01-11", 60, "revised")),
      [Subject |-> "Math", Date |-> "2024-01-10", Duration |-> <<"0", "3", "0">>, Notes |-> ""],
      [Subject |-> "Math", Date |-> "2024-01-10", Duration |-> <<"3", "x">>, Notes |-> ""] }

WellFormedRow(row) == IsIntLiteral(row.Duration)

WellFormed(f) == f.exists => (f.header /\ \A i \in 1..Len(f.rows) : WellFormedRow(f.rows[i]))

\* the file after _append_to_csv when the header is never written
_append_to_csv_NoHeader(f, session) ==
    [exists |-> TRUE, header |-> f.header, rows |-> Append(f.rows, writerow(session))]

\* the file after _append_to_csv(session): opened in append mode, the header
\* written first when the file did not exist
_append_to_csv(f, session) ==
    [exists |-> TRUE,
     header |-> IF f.exists THEN f.header ELSE TRUE,
     rows |-> Append(f.rows, writerow(session))]

RECURSIVE write_rows(_)
write_rows(sessions) ==
    IF sessions = <<>> THEN <<>>
    ELSE <<writerow(Head(sessions))>> \o write_rows(Tail(sessions))

\* the file after _write_all_to_csv(): truncated, header, one record per session
_write_all_to_csv(sessions) ==
    [exists |-> TRUE, header |-> TRUE, rows |-> write_rows(sessions)]

\* the loop of load_sessions when a record whose duration is no integer is skipped
RECURSIVE read_rows_SkipBad(_, _)
read_rows_SkipBad(rows, acc) ==
    IF rows = <<>> THEN [ok |-> TRUE, err |-> "none", list |-> acc]
    ELSE IF ~IsIntLiteral(Head(rows).Duration) THEN read_rows_SkipBad(Tail(rows), acc)
    ELSE read_rows_SkipBad(Tail(rows), Append(acc, read_row(Head(rows))))

\* the loop of load_sessions over the records after the header: int() raises
\* ValueError at the first record whose duration is no integer, and the
\* sessions appended before it stay in the list
RECURSIVE read_rows(_, _)
read_rows(rows, acc) ==
    IF rows = <<>> THEN [ok |-> TRUE, err |-> "none", list |-> acc]
    ELSE IF ~IsIntLiteral(Head(rows).Duration)
         THEN [ok |-> FALSE, err |-> "ValueError", list |-> acc]
    ELSE read_rows(Tail(rows), Append(acc, read_row(Head(rows))))

\* load_sessions(): [ok, err, list], list being session_list afterwards.
\* csv.DictReader takes the first line for the field names: in a file without
\* the header line the first record is consumed as the names, and row["Subject"]
\* raises KeyError on the next one.
load_sessions(f) ==
    IF ~f.exists THEN [ok |-> TRUE, err |-> "none", list |-> <<>>]
    ELSE IF f.header THEN read_rows(f.rows, <<>>)
    ELSE IF Len(f.rows) <= 1 THEN [ok |-> TRUE, err |-> "none", list |-> <<>>]
    ELSE [ok |-> FALSE, err |-> "KeyError", list |-> <<>>]

\* save_session(session): [list, file]
save_session(list, f, session) ==
    [list |-> Append(list, session), file |-> _append_to_csv(f, session)]

\* the guard of update_session without its lower bound
valid_index_NoLowerBound(index, n) == index < n

\* 0 <= index < len(session_list)
valid_index(index, n) == 0 <= index /\ index < n

\* the 1-based position that Python's list[index] addresses, 0 when IndexError
position(index, n) ==
    IF 0 <= index /\ index < n THEN index + 1
    ELSE IF index < 0 /\ 0 - n <= index THEN n + index + 1
    ELSE 0

\* update_session(index, updated_session): [ok, err, list, file]
update_session(list, f, index, updated_session) ==
    IF valid_index(index, Len(list))
    THEN IF position(index, Len(list)) = 0
         THEN [ok |-> FALSE, err |-> "IndexError", list |-> list, file |-> f]
         ELSE LET new == [list EXCEPT ![position(index, Len(list))] = updated_session]
              IN  [ok |-> TRUE, err |-> "none", list |-> new, file |-> _write_all_to_csv(new)]
    ELSE [ok |-> TRUE, err |-> "none", list |-> list, file |-> f]

\* the comprehension of filter_sessions_by_date keeping the first match only
RECURSIVE filter_sessions_by_date_First(_, _)
filter_sessions_by_date_First(list, date_str) ==
    IF list = <<>> THEN <<>>
    ELSE IF Head(list).date = date_str THEN <<Head(list)>>
    ELSE filter_sessions_by_date_First(Tail(list), date_str)

\* [s for s in session_list if s.date == date_str]
RECURSIVE filter_sessions_by_date(_, _)
filter_sessions_by_date(list, date_str) ==
    IF list = <<>> THEN <<>>
    ELSE IF Head(list).date = date_str
         THEN <<Head(list)>> \o filter_sessions_by_date(Tail(list), date_str)
    ELSE filter_sessions_by_date(Tail(list), date_str)

(***************************************************************************)
(* Initial states                                                          *)
(***************************************************************************)
SeqsUpTo(S, n) == UNION {[1..k -> S] : k \in 0..n}

\* sessions.csv at process start: absent, or the header and some records
InitFiles ==
    {NoFile} \cup {[exists |-> TRUE, header |-> TRUE, rows |-> r] : r \in SeqsUpTo(InitRows, MaxLen - 1)}

NoSession == StudySession("", "", 0, "")

\* the history record of an operation; the fields an operation does not use keep these values
Did(op) == [op |-> op, ok |-> TRUE, err |-> "none", call |-> "none", index |-> 0,
            session |-> NoSession, date |-> "", result |-> <<>>, fresh |-> FALSE]

\* the widgets as Ui_MainWindow.setupUi leaves them, and StudyApp.selected_row = None
WidgetsInit ==
    /\ selected_row = <<>>
    /\ table = <<>>
    /\ form = StudySession("", "2024-01-10", 0, "")
    /\ calendar_date = "2024-01-10"
    /\ error_labels = {}
    /\ details = <<>>
    /\ tab = 0
    /\ timer_pending = FALSE
    /\ clicked = <<>>

\* a process that imported model.py: session_list = []
StoreInit ==
    /\ session_list = <<>>
    /\ file \in InitFiles
    /\ pc = "store"
    /\ WidgetsInit
    /\ last = Did("start")
    /\ appended = [valid |-> ~file.exists, saved |-> <<>>]

(***************************************************************************)
(* The store called directly                                               *)
(***************************************************************************)
\* load_sessions()
LoadSessions ==
    /\ pc = "store"
    /\ LET r == load_sessions(file)
       IN  /\ session_list' = r.list
           /\ last' = [Did("load_sessions") EXCEPT !.ok = r.ok, !.err = r.err,
                           !.result = IF r.ok THEN r.list ELSE <<>>,
                           !.fresh = (session_list = <<>>)]
    /\ UNCHANGED <<file, pc, app_vars, appended>>

\* save_session(session)
SaveSession ==
    /\ pc = "store"
    /\ Len(file.rows) < MaxLen
    /\ Len(session_list) < MaxLen
    /\ \E session \in SessionInputs :
         LET r == save_session(session_list, file, session)
         IN  /\ session_list' = r.list
             /\ file' = r.file
             /\ last' = [Did("save_session") EXCEPT !.session = session]
             /\ appended' = IF appended.valid
                            THEN [appended EXCEPT !.saved = Append(@, session)]
                            ELSE appended
    /\ UNCHANGED <<pc, app_vars>>

\* update_session(index, updated_session)
UpdateSession ==
    /\ pc = "store"
    /\ \E index \in -1..MaxLen, session \in SessionInputs :
         LET r == update_session(session_list, file, index, session)
         IN  /\ session_list' = r.list
             /\ file' = r.file
             /\ last' = [Did("update_session") EXCEPT !.ok = r.ok, !.err = r.err,
                             !.index = index, !.session = session]
             /\ appended' = IF appended.valid /\ r.file = file
                            THEN appended
                            ELSE [valid |-> FALSE, saved |-> <<>>]
    /\ UNCHANGED <<pc, app_vars>>

\* filter_sessions_by_date(date_str)
FilterSessionsByDate ==
    /\ pc = "store"
    /\ \E date_str \in Dates \cup {"2024-1-10"} :
         last' = [Did("filter_sessions_by_date") EXCEPT !.date = date_str,
                     !.result = filter_sessions_by_date(session_list, date_str)]
    /\ UNCHANGED <<session_list, file, pc, app_vars, appended>>

\* the process ends and a new one imports model.py: session_list = [] again
Restart ==
    /\ pc = "store"
    /\ session_list' = <<>>
    /\ last' = Did("start")
    /\ UNCHANGED <<file, pc, app_vars, appended>>

StoreNext ==
    \/ LoadSessions
    \/ SaveSession
    \/ UpdateSession
    \/ FilterSessionsByDate
    \/ Restart

StoreSpec == StoreInit /\ [][StoreNext]_vars

(***************************************************************************)
(* StudyApp                                                                *)
(***************************************************************************)
\* insertion of s after every element whose key is not greater: list.sort is stable
RECURSIVE insert_by_date(_, _)
insert_by_date(sorted, s) ==
    IF sorted = <<>> THEN <<s>>
    ELSE IF DateKey(s.date) < DateKey(Head(sorted).date) THEN <<s>> \o sorted
    ELSE <<Head(sorted)>> \o insert_by_date(Tail(sorted), s)

RECURSIVE sort_from(_, _)
sort_from(sessions, sorted) ==
    IF sessions = <<>> THEN sorted
    ELSE sort_from(Tail(sessions), insert_by_date(sorted, Head(sessions)))

\* sessions.sort(key=lambda s: s.date)
sort_by_date(sessions) == sort_from(sessions, <<>>)

\* the list object passed to _populate_table afterwards, had it sorted a copy of it
sort_in_place_Copy(sessions) == sessions

\* the list object passed to _populate_table afterwards: sort() reorders it in
\* place, and show_all_sessions passes session_list itself
sort_in_place(sessions) == sort_by_date(sessions)

\* the items _populate_table sets, row by row
RECURSIVE table_items(_)
table_items(sessions) ==
    IF sessions = <<>> THEN <<>>
    ELSE <<writerow(Head(sessions))>> \o table_items(Tail(sessions))

\* show_all_sessions(): [ok, err, list, table]
show_all_sessions(f, old_table) ==
    LET r == load_sessions(f)
    IN  IF r.ok
        THEN [ok |-> TRUE, err |-> "none", list |-> sort_in_place(r.list),
              table |-> table_items(sort_by_date(r.list))]
        ELSE [ok |-> FALSE, err |-> r.err, list |-> r.list, table |-> old_table]

\* the validation of add_or_update_session that checks the subject alone
has_error_SubjectOnly(subject, duration) == subject = ""

\* the validation of add_or_update_session
has_error(subject, duration) == subject = "" \/ duration = 0

\* the messages the validation sets
error_messages(subject, duration) ==
    (IF subject = "" THEN {"SubjectErrorLabel"} ELSE {})
        \cup (IF duration = 0 THEN {"DurationErrorLabel"} ELSE {})

\* the form after clear_form()
cleared_form(date) == StudySession("", date, 0, "")

RECURSIVE detail_lines(_)
detail_lines(sessions) ==
    IF sessions = <<>> THEN <<>>
    ELSE <<<<Head(sessions).subject, str(Head(sessions).duration)>>>> \o detail_lines(Tail(sessions))

\* the process before StudyApp() is constructed
AppInit ==
    /\ session_list = <<>>
    /\ file \in InitFiles
    /\ pc = "start"
    /\ WidgetsInit
    /\ last = Did("start")
    /\ appended = [valid |-> FALSE, saved |-> <<>>]

\* StudyApp.__init__: load_sessions(), then show_all_sessions(); an exception ends the process
Startup ==
    /\ pc = "start"
    /\ LET r == load_sessions(file)
           v == show_all_sessions(file, table)
       IN  IF r.ok /\ v.ok
           THEN /\ pc' = "running"
                /\ session_list' = v.list
                /\ table' = v.table
                /\ last' = [Did("__init__") EXCEPT !.call = "load_sessions", !.result = r.list]
           ELSE /\ pc' = "crashed"
                /\ session_list' = r.list
                /\ table' = table
                /\ last' = [Did("__init__") EXCEPT !.call = "load_sessions", !.ok = FALSE, !.err = r.err]
    /\ UNCHANGED <<file, selected_row, form, calendar_date, error_labels, details, tab,
                   timer_pending, clicked, appended>>

\* the user edits the fields of the form
EditForm ==
    /\ pc = "running"
    /\ form' \in FormInputs
    /\ last' = Did("edit")
    /\ UNCHANGED <<session_list, file, pc, selected_row, table, calendar_date, error_labels,
                   details, tab, timer_pending, clicked, appended>>

\* add_or_update_session(): the click on AddSessionPushButton
AddOrUpdateSession ==
    /\ pc = "running"
    /\ IF has_error(form.subject, form.duration)
       THEN /\ error_labels' = error_messages(form.subject, form.duration)
            /\ last' = [Did("add_or_update_session") EXCEPT !.session = form]
            /\ UNCHANGED <<session_list, file, pc, selected_row, table, form, calendar_date,
                           details, tab, timer_pending, clicked, appended>>
       ELSE /\ selected_row = <<>> => (Len(file.rows) < MaxLen /\ Len(session_list) < MaxLen)
            /\ LET session == StudySession(form.subject, form.date, form.duration, form.notes)
                   u == IF selected_row # <<>>
                        THEN update_session(session_list, file, selected_row[1], session)
                        ELSE [ok |-> TRUE, err |-> "none"] @@ save_session(session_list, file, session)
                   v == show_all_sessions(u.file, table)
                   did == [Did("add_or_update_session") EXCEPT
                              !.call = IF selected_row # <<>> THEN "update_session" ELSE "save_session",
                              !.index = IF selected_row # <<>> THEN selected_row[1] ELSE 0,
                              !.session = session]
               IN  /\ file' = u.file
                   /\ IF ~u.ok
                      THEN /\ pc' = "crashed"
                           /\ session_list' = u.list
                           /\ last' = [did EXCEPT !.ok = FALSE, !.err = u.err]
                           /\ UNCHANGED <<selected_row, table, form, error_labels, timer_pending, clicked>>
                      ELSE /\ selected_row' = <<>>
                           /\ form' = cleared_form(calendar_date)
                           /\ error_labels' = {}
                           /\ clicked' = <<>>
                           /\ session_list' = v.list
                           /\ table' = v.table
                           /\ IF v.ok
                              THEN /\ pc' = pc
                                   /\ timer_pending' = TRUE
                                   /\ last' = did
                              ELSE /\ pc' = "crashed"
                                   /\ timer_pending' = timer_pending
                                   /\ last' = [did EXCEPT !.ok = FALSE, !.err = v.err]
            /\ UNCHANGED <<calendar_date, details, tab, appended>>

\* show_calendar_sessions(date): the click on a day of CalendarWidget
ShowCalendarSessions ==
    /\ pc = "running"
    /\ \E date \in Dates :
         LET sessions_on_date == filter_sessions_by_date(session_list, date)
         IN  /\ calendar_date' = date
             /\ details' = <<date, detail_lines(sessions_on_date)>>
             /\ last' = [Did("show_calendar_sessions") EXCEPT
                             !.call = "filter_sessions_by_date", !.date = date,
                             !.result = sessions_on_date]
    /\ tab' = 1
    /\ UNCHANGED <<session_list, file, pc, selected_row, table, form, error_labels, timer_pending,
                   clicked, appended>>

\* load_session_into_form(row, column): the click on a cell of TableWidget
LoadSessionIntoForm ==
    /\ pc = "running"
    /\ \E row \in 0..(Len(table) - 1) :
         /\ form' = StudySession(table[row + 1].Subject, table[row + 1].Date,
                                 int(table[row + 1].Duration), table[row + 1].Notes)
         /\ selected_row' = <<row>>
         /\ clicked' = <<table[row + 1]>>
         /\ last' = [Did("load_session_into_form") EXCEPT !.index = row]
    /\ tab' = 0
    /\ UNCHANGED <<session_list, file, pc, table, calendar_date, error_labels, details,
                   timer_pending, appended>>

\* clear_form(): the click on ClearPushButton
ClearForm ==
    /\ pc = "running"
    /\ form' = cleared_form(calendar_date)
    /\ selected_row' = <<>>
    /\ error_labels' = {}
    /\ clicked' = <<>>
    /\ last' = Did("clear_form")
    /\ UNCHANGED <<session_list, file, pc, table, calendar_date, details, tab, timer_pending, appended>>

\* _clear_highlights(), called by a timer two seconds after a submit; the callbacks
\* of several submits are alike, and after one ran another may still be pending
ClearHighlights ==
    /\ pc = "running"
    /\ timer_pending
    /\ timer_pending' \in BOOLEAN
    /\ error_labels' = {}
    /\ last' = Did("_clear_highlights")
    /\ UNCHANGED <<session_list, file, pc, selected_row, table, form, calendar_date, details,
                   tab, clicked, appended>>

AppNext ==
    \/ Startup
    \/ EditForm
    \/ AddOrUpdateSession
    \/ ShowCalendarSessions
    \/ LoadSessionIntoForm
    \/ ClearForm
    \/ ClearHighlights

AppSpec == AppInit /\ [][AppNext]_vars

(***************************************************************************)
(* Properties                                                              *)
(***************************************************************************)
\* the data records of f describe exactly the sessions of list, in the same order
Mirrors(list, f) ==
    /\ Len(f.rows) = Len(list)
    /\ \A i \in 1..Len(list) : WellFormedRow(f.rows[i]) /\ read_row(f.rows[i]) = list[i]

\* the positions of list whose session has the date d
Matching(list, d) == {i \in 1..Len(list) : list[i].date = d}

\* the k-th smallest element of the set of positions I
Kth(I, k) == CHOOSE i \in I : Cardinality({j \in I : j <= i}) = k

\* the 0-based index is one of list
InRange(index, list) == index >= 0 /\ index < Len(list)

\* C1: after every successfully completed store operation the in-memory list and
\* the data records of the file describe the same sessions in the same order.
\* Stated for filter_sessions_by_date, the one store call of show_calendar_sessions,
\* after which the handler touches neither the list nor the file.
C1_StoreConsistency ==
    (pc = "running" /\ last.op = "show_calendar_sessions") => Mirrors(session_list, file)

\* C2: update_session(i, s) with a valid i makes load_sessions()[i] equal s and
\* leaves the length of load_sessions() and its session at every other index as
\* they were immediately before the call.
C2_ReplacePreservesLength ==
    [][(last'.op = "add_or_update_session" /\ last'.call = "update_session"
            /\ InRange(last'.index, session_list))
        => LET before == load_sessions(file)
               after == load_sessions(file')
           IN  /\ before.ok /\ after.ok
               /\ Len(after.list) = Len(before.list)
               /\ after.list[last'.index + 1] = last'.session
               /\ \A j \in 1..Len(before.list) :
                     j # last'.index + 1 => after.list[j] = before.list[j]]_vars

\* C3: with the file absent or well-formed, after save_session(s) load_sessions()
\* returns one element more than it would have returned before the call, its last
\* element is s, and the earlier elements are the same in the same order.
C3_AppendOnlyGrowth ==
    [][(last'.op = "save_session" /\ WellFormed(file))
        => LET before == load_sessions(file)
               after == load_sessions(file')
           IN  /\ before.ok /\ after.ok
               /\ Len(after.list) = Len(before.list) + 1
               /\ after.list[Len(after.list)] = last'.session
               /\ SubSeq(after.list, 1, Len(before.list)) = before.list]_vars

\* a save into a file that already held a record, the list not mirroring the file
C3_Witness ==
    /\ last.op = "save_session"
    /\ Len(file.rows) >= 2
    /\ Len(session_list) < Len(file.rows)

\* C4: starting without a file, after the sessions of a sequence were passed to
\* save_session in order, load_sessions() returns exactly those sessions, in that
\* order, every field equal.
C4_RoundTrip ==
    (last.op = "load_sessions" /\ appended.valid)
        => (last.ok /\ last.result = appended.saved)

\* a load by a fresh process (its list was empty) of at least two saved sessions,
\* one of them with a duration of more than one digit and one with duration 0
C4_Witness ==
    /\ last.op = "load_sessions"
    /\ last.fresh
    /\ appended.valid
    /\ Len(appended.saved) >= 2
    /\ \E i, j \in 1..Len(appended.saved) :
          appended.saved[i].duration >= 10 /\ appended.saved[j].duration = 0

\* C5: update_session with an index < 0 or >= len(session_list) raises no error
\* and leaves the list and the file (its existence included) unchanged.
C5_ReplaceNoOpOnInvalidIndex ==
    [][(last'.op = "update_session" /\ ~InRange(last'.index, session_list))
        => (last'.ok /\ session_list' = session_list /\ file' = file)]_vars

\* update_session(-1, s) on a list that is not empty, s not its last session
C5_Witness ==
    /\ last.op = "update_session"
    /\ last.index = -1
    /\ session_list # <<>>
    /\ session_list[Len(session_list)] # last.session

\* C6: filter_sessions_by_date(d) returns exactly the sessions of the list whose
\* date is d, in their order in the list (none when none matches), and leaves the
\* list and the file unchanged.
C6_FilterCorrectness ==
    [][last'.op = "filter_sessions_by_date"
        => LET I == Matching(session_list, last'.date)
           IN  /\ session_list' = session_list
               /\ file' = file
               /\ Len(last'.result) = Cardinality(I)
               /\ \A k \in 1..Cardinality(I) :
                     last'.result[k] = session_list[Kth(I, k)]]_vars

\* a filter that kept two sessions and dropped one that stood before them
C6_Witness ==
    /\ last.op = "filter_sessions_by_date"
    /\ Len(last.result) = 2
    /\ Len(session_list) = 3
    /\ session_list[1].date # last.date

\* C7: when a record of the file has a duration that is no integer,
\* load_sessions() fails with the parse error and returns no sequence.
C7_MalformedDuration ==
    (last.op = "load_sessions" /\ file.exists
        /\ \E i \in 1..Len(file.rows) : ~IsIntLiteral(file.rows[i].Duration))
        => (~last.ok /\ last.err = "ValueError" /\ last.result = <<>>)

\* a failed load of a file whose first record is good and whose second is bad
C7_Witness ==
    /\ last.op = "load_sessions"
    /\ ~last.ok
    /\ Len(file.rows) >= 2
    /\ IsIntLiteral(file.rows[1].Duration)
    /\ ~IsIntLiteral(file.rows[2].Duration)

\* C8: add_or_update_session with an empty subject or a duration of zero calls
\* neither save_session nor update_session: the list, the file and selected_row
\* stay as they were.
C8_ValidationGuardsStore ==
    [][(last'.op = "add_or_update_session" /\ (form.subject = "" \/ form.duration = 0))
        => (/\ last'.call = "none"
            /\ session_list' = session_list
            /\ file' = file
            /\ selected_row' = selected_row)]_vars

\* a rejected submit of a zero duration while a row is selected
C8_Witness ==
    /\ last.op = "add_or_update_session"
    /\ last.call = "none"
    /\ last.session.subject # ""
    /\ last.session.duration = 0
    /\ selected_row # <<>>
    /\ session_list # <<>>

\* C9: session_list changes only inside load_sessions, save_session and
\* update_session; rendering the table from what load_sessions returned does not
\* alter it: a handler leaves the list as it was or as its last load_sessions()
\* returned it.
C9_SingleOwnership ==
    [][pc' = "running"
        => (session_list' = session_list \/ session_list' = load_sessions(file').list)]_vars

\* C10: when add_or_update_session calls update_session(selected_row, session),
\* selected_row is a valid index and session_list[selected_row] is the session
\* shown in the row clicked last; update_session is called only if a row was
\* clicked since the last successful submit or clear, save_session otherwise.
C10_UpdateTargetsClicked ==
    [][(last'.op = "add_or_update_session" /\ last'.call # "none")
        => IF last'.call = "update_session"
           THEN /\ clicked # <<>>
                /\ selected_row # <<>>
                /\ last'.index = selected_row[1]
                /\ InRange(selected_row[1], session_list)
                /\ writerow(session_list[selected_row[1] + 1]) = clicked[1]
           ELSE clicked = <<>>]_vars

\* an accepted update of the second row of a table of at least two rows
C10_Witness ==
    /\ last.op = "add_or_update_session"
    /\ last.call = "update_session"
    /\ last.index = 1
    /\ last.ok
    /\ Len(session_list) >= 2

====
